---- MODULE Spec2Model ----
(***************************************************************************)
(* Design-Pattern-CPP: the IBackpack decorator chain of                    *)
(* "Structural Patterns/Decorator_1.cpp" and the two TextShape adapters of *)
(* Adapter.cpp, as state machines.                                         *)
(*                                                                         *)
(* SpecBackpack: a client that builds chains the way main does (new        *)
(* PlainBackpack, new <wrapper>(pointer)), calls assemble() on its handle  *)
(* and deletes the handle, as its last act.  assemble() runs one frame    *)
(* step at a time.                                                        *)
(* SpecAdapter: a client that creates TextViews, builds class and object   *)
(* TextShape adapters and calls BoundingBox / IsEmpty / CreateManipulator. *)
(***************************************************************************)
EXTENDS Integers, Sequences, FiniteSets, TLC

\* ---------------------------------------------------------------- bounds
\* Heap objects a backpack client may allocate (main allocates five).
MaxNodes == 5

\* Objects (TextViews, TextShape adapters, manipulators) an adapter client
\* may create in all.
MaxObjects == 4

\* The null pointer value of IBackpack* / TextView*.
NULL == 0

Nodes == 1..MaxNodes

\* ------------------------------------------------- Decorator_1.cpp: types
PlainBackpack == "PlainBackpack"
BackpackDecorator == "BackpackDecorator"
WithLaptopSlot == "WithLaptopSlot"
WithUSBCharge == "WithUSBCharge"
WithWaterBottle == "WithWaterBottle"

\* The concrete decorators: subclasses of BackpackDecorator overriding assemble.
FeatureKinds == {WithLaptopSlot, WithUSBCharge, WithWaterBottle}

\* Every class with the BackpackDecorator(IBackpack*) constructor.
WrapperKinds == {BackpackDecorator} \cup FeatureKinds

Unborn == "unborn"

\* ------------------------------------------------------ Adapter.cpp: types
Views == 1..MaxObjects

Shapes == 1..MaxObjects

\* The states a TextView may be in: origin (x, y), extent (width, height)
\* and what its IsEmpty() answers.
TextViewStates ==
  { [x |-> 0, y |-> 0, width |-> 10, height |-> 5, empty |-> TRUE],
    [x |-> 0, y |-> 0, width |-> 10, height |-> 5, empty |-> FALSE],
    [x |-> 1, y |-> 2, width |-> 4, height |-> 4, empty |-> TRUE] }

NoView == [x |-> 0, y |-> 0, width |-> 0, height |-> 0, empty |-> FALSE]

NoRet == [op |-> "none", on |-> NULL, value |-> NULL]


VARIABLES
  kind,         \* kind[n]: dynamic type of heap object n, or Unborn
  m_Decorator,  \* m_Decorator[n]: BackpackDecorator::m_Decorator of object n
  released,     \* released[n]: how many times object n's storage was released
  pBackpack,    \* the client's handle (main's pBackpack), NULL when it holds none
  stack,        \* call stack of the running assemble(): frames [self, fn, pc]
  out,          \* what the running/last assemble() wrote to cout: [by, text]
  callLog,      \* objects on which assemble() was dispatched, in order
  status,       \* "idle" | "running" | "done" | "crashed"
  lastDeleted,  \* history: the object the last delete expression was applied to
  view,         \* view[t]: state of TextView object t (NoView before it exists)
  viewCount,    \* number of TextView objects the client created
  variant,      \* variant[a]: Unborn | "class" | "object", which TextShape a is
  sub,          \* sub[a]: state of the TextView base subobject of class adapter a
  _text,        \* _text[a]: TextShape::_text of object adapter a
  supplied,     \* history: the pointer passed to the constructor of adapter a
  ret,          \* what the call just made returned: [op, on, value]; NoRet
                \* once the client has gone on to construct or change an object
  manips,       \* the TextManipulator objects created so far, in creation order
  lastEdit,     \* history: the TextView the client changed last
  adStatus      \* "ok" | "crashed"

bvars == <<kind, m_Decorator, released, pBackpack, stack, out, callLog, status,
           lastDeleted>>

avars == <<view, viewCount, variant, sub, _text, supplied, ret, manips, lastEdit,
           adStatus>>

vars == <<bvars, avars>>

\* --------------------------------------------------------------- helpers
\* The next free heap slot (objects are numbered in allocation order).
FreeNodes == {n \in Nodes : kind[n] = Unborn}

NewNode == CHOOSE n \in FreeNodes : \A m \in FreeNodes : n <= m

\* The text each assemble() body writes to cout.
PlainText == "\n ShoulderStraps and mainCompartment"

LaptopSlotText == " + LaptopSlot"

USBChargeText == " + USBCharge"

WaterBottleText == " + WaterBottle"

\* A copy-and-paste slip between the three concrete decorators:
\* WithUSBCharge::assemble left writing the text of WithLaptopSlot.
FeatureTextPasted(k) ==
  CASE k = WithLaptopSlot -> LaptopSlotText
    [] k = WithUSBCharge -> LaptopSlotText
    [] k = WithWaterBottle -> WaterBottleText

FeatureText(k) ==
  CASE k = WithLaptopSlot -> LaptopSlotText
    [] k = WithUSBCharge -> USBChargeText
    [] k = WithWaterBottle -> WaterBottleText

\* Virtual dispatch of IBackpack::assemble on object n: the final overrider
\* of n's dynamic type.
Dispatch(n) == kind[n]

Frame(n, f) == [self |-> n, fn |-> f, pc |-> "call"]

Top == stack[Len(stack)]

Pop == SubSeq(stack, 1, Len(stack) - 1)

SetTopPc(p) == [stack EXCEPT ![Len(stack)].pc = p]

\* ------------------------------------------------------------ construction
\* BackpackDecorator(IBackpack *decorator) : m_Decorator(decorator) {}
BackpackDecoratorCtor(decorator) == decorator

\* new PlainBackpack(), the result assigned to the client's handle.  The
\* client starts a chain only when it holds none (main's step 1), and builds
\* nothing after its delete (main returns).
NewPlainBackpack ==
  /\ UNCHANGED avars
  /\ status \in {"idle", "done"}
  /\ lastDeleted = NULL
  /\ pBackpack = NULL
  /\ FreeNodes # {}
  /\ kind' = [kind EXCEPT ![NewNode] = PlainBackpack]
  /\ pBackpack' = NewNode
  /\ status' = "idle"
  /\ stack' = <<>> /\ out' = <<>> /\ callLog' = <<>>
  /\ UNCHANGED <<m_Decorator, released, lastDeleted>>

\* new K(pBackpack) for a wrapper class K; the constructor stores whatever
\* pointer it is given, the null pointer included.
NewWrapper(k) ==
  /\ UNCHANGED avars
  /\ status \in {"idle", "done"}
  /\ lastDeleted = NULL
  /\ FreeNodes # {}
  /\ kind' = [kind EXCEPT ![NewNode] = k]
  /\ m_Decorator' = [m_Decorator EXCEPT ![NewNode] = BackpackDecoratorCtor(pBackpack)]
  /\ pBackpack' = NewNode
  /\ status' = "idle"
  /\ stack' = <<>> /\ out' = <<>> /\ callLog' = <<>>
  /\ UNCHANGED <<released, lastDeleted>>

NewBackpackDecorator == NewWrapper(BackpackDecorator)

NewWithLaptopSlot == NewWrapper(WithLaptopSlot)

NewWithUSBCharge == NewWrapper(WithUSBCharge)

NewWithWaterBottle == NewWrapper(WithWaterBottle)

\* ---------------------------------------------------------------- assemble
\* pBackpack->assemble() in main: a virtual call on the handle.
CallAssemble ==
  /\ UNCHANGED avars
  /\ status \in {"idle", "done"}
  /\ pBackpack # NULL
  /\ stack' = <<Frame(pBackpack, Dispatch(pBackpack))>>
  /\ callLog' = <<pBackpack>>
  /\ out' = <<>>
  /\ status' = "running"
  /\ UNCHANGED <<kind, m_Decorator, released, pBackpack, lastDeleted>>

Running == status = "running" /\ stack # <<>>

Finish(s) == IF s = <<>> THEN "done" ELSE "running"

\* PlainBackpack::assemble: writes its text and returns.
PlainAssemble ==
  /\ UNCHANGED avars
  /\ Running
  /\ Top.fn = PlainBackpack
  /\ out' = Append(out, [by |-> Top.self, text |-> PlainText])
  /\ stack' = Pop
  /\ status' = Finish(Pop)
  /\ UNCHANGED <<kind, m_Decorator, released, pBackpack, callLog, lastDeleted>>

\* BackpackDecorator::assemble: m_Decorator->assemble(), a virtual call
\* through the stored pointer.
DecoratorForward ==
  /\ UNCHANGED avars
  /\ Running
  /\ Top.fn = BackpackDecorator /\ Top.pc = "call"
  /\ m_Decorator[Top.self] # NULL
  /\ LET d == m_Decorator[Top.self] IN
       /\ stack' = Append(SetTopPc("ret"), Frame(d, Dispatch(d)))
       /\ callLog' = Append(callLog, d)
  /\ UNCHANGED <<kind, m_Decorator, released, pBackpack, out, status, lastDeleted>>

\* BackpackDecorator::assemble with a null m_Decorator: a member call through
\* a null pointer is undefined behaviour.  The builds either fault or carry
\* on as if the call had returned.
DecoratorForwardNull ==
  /\ UNCHANGED avars
  /\ Running
  /\ Top.fn = BackpackDecorator /\ Top.pc = "call"
  /\ m_Decorator[Top.self] = NULL
  /\ \/ /\ status' = "crashed"
        /\ UNCHANGED stack
     \/ /\ stack' = SetTopPc("ret")
        /\ UNCHANGED status
  /\ UNCHANGED <<kind, m_Decorator, released, pBackpack, out, callLog, lastDeleted>>

\* A BackpackDecorator::assemble that is not a pure forward: it writes a
\* text of its own before it returns.
DecoratorReturnWriting ==
  /\ UNCHANGED avars
  /\ Running
  /\ Top.fn = BackpackDecorator /\ Top.pc = "ret"
  /\ out' = Append(out, [by |-> Top.self, text |-> " + Decorator"])
  /\ stack' = Pop
  /\ status' = Finish(Pop)
  /\ UNCHANGED <<kind, m_Decorator, released, pBackpack, callLog, lastDeleted>>

\* BackpackDecorator::assemble returns once the forwarded call has.
DecoratorReturn ==
  /\ UNCHANGED avars
  /\ Running
  /\ Top.fn = BackpackDecorator /\ Top.pc = "ret"
  /\ stack' = Pop
  /\ status' = Finish(Pop)
  /\ UNCHANGED <<kind, m_Decorator, released, pBackpack, out, callLog, lastDeleted>>

\* A WithX::assemble that omits the call of BackpackDecorator::assemble().
FeatureForwardOmitted ==
  /\ UNCHANGED avars
  /\ Running
  /\ Top.fn \in FeatureKinds /\ Top.pc = "call"
  /\ stack' = SetTopPc("ret")
  /\ UNCHANGED <<kind, m_Decorator, released, pBackpack, out, callLog, status,
                 lastDeleted>>

\* WithX::assemble, first statement: BackpackDecorator::assemble(), a
\* qualified (non-virtual) call on the same object.
FeatureForward ==
  /\ UNCHANGED avars
  /\ Running
  /\ Top.fn \in FeatureKinds /\ Top.pc = "call"
  /\ stack' = Append(SetTopPc("ret"), Frame(Top.self, BackpackDecorator))
  /\ UNCHANGED <<kind, m_Decorator, released, pBackpack, out, callLog, status,
                 lastDeleted>>

\* WithX::assemble, second statement: cout << " + X", then return.
FeatureEmit ==
  /\ UNCHANGED avars
  /\ Running
  /\ Top.fn \in FeatureKinds /\ Top.pc = "ret"
  /\ out' = Append(out, [by |-> Top.self, text |-> FeatureText(Top.fn)])
  /\ stack' = Pop
  /\ status' = Finish(Pop)
  /\ UNCHANGED <<kind, m_Decorator, released, pBackpack, callLog, lastDeleted>>

\* ------------------------------------------------------------------ delete
\* The objects whose storage `delete p` releases: ~IBackpack is virtual, and
\* no class of the file declares a destructor that deletes m_Decorator, so
\* only the object p points to is released.
DeleteReleases(p) == {p}

\* delete pBackpack in main; the handle is not used again.
DeleteBackpack ==
  /\ UNCHANGED avars
  /\ status \in {"idle", "done"}
  /\ pBackpack # NULL
  /\ released' = [n \in Nodes |->
                    IF n \in DeleteReleases(pBackpack) THEN released[n] + 1
                    ELSE released[n]]
  /\ lastDeleted' = pBackpack
  /\ pBackpack' = NULL
  /\ status' = "idle"
  /\ stack' = <<>> /\ out' = <<>> /\ callLog' = <<>>
  /\ UNCHANGED <<kind, m_Decorator>>

\* ============================================================ Adapter.cpp
\* TextView::GetOrigin(Coord &x, Coord &y) const on a TextView in state s:
\* the two out-parameters, in declaration order.
GetOrigin(s) == <<s.x, s.y>>

\* TextView::GetExtent(Coord &width, Coord &height) const.
GetExtent(s) == <<s.width, s.height>>

\* TextView::IsEmpty() const (virtual): the answer of the object itself,
\* whatever its dynamic type.
TextViewIsEmpty(s) == s.empty

\* Point(a, b): the pair of its two constructor arguments, in order.
Point(a, b) == <<a, b>>

\* TextShape::BoundingBox of the class adapter: GetOrigin / GetExtent are the
\* inherited members, called on the adapter's own TextView subobject.
ClassBoundingBox(a) ==
  LET o == GetOrigin(sub[a])
      e == GetExtent(sub[a])
      bottom == o[1]
      left == o[2]
      width == e[1]
      height == e[2]
  IN  [bottomLeft |-> Point(bottom, left),
       topRight |-> Point(bottom + height, left + width)]

\* TextShape::IsEmpty of the class adapter: return TextView::IsEmpty().
ClassIsEmpty(a) == TextViewIsEmpty(sub[a])

\* TextShape::CreateManipulator of the class adapter:
\* return new TextManipulator(this).
ClassCreateManipulator(a) == [target |-> <<"TextShape", a>>]

\* A constructor whose parameter shadows the member (_text = _text): the
\* member is never set from the argument.
TextShapeCtorShadowed(t) == NULL

\* TextShape::TextShape(TextView* t) { _text = t; }
TextShapeCtor(t) == t

\* TextShape::BoundingBox of the object adapter: the same body through _text.
ObjectBoundingBox(a) ==
  LET o == GetOrigin(view[_text[a]])
      e == GetExtent(view[_text[a]])
      bottom == o[1]
      left == o[2]
      width == e[1]
      height == e[2]
  IN  [bottomLeft |-> Point(bottom, left),
       topRight |-> Point(bottom + height, left + width)]

\* An IsEmpty that derives emptiness from the extent instead of asking the
\* TextView.
ObjectIsEmptyFromExtent(a) == GetExtent(view[_text[a]])[1] = 0

\* TextShape::IsEmpty of the object adapter: return _text->IsEmpty().
ObjectIsEmpty(a) == TextViewIsEmpty(view[_text[a]])

\* A CreateManipulator that hands the manipulator the wrapped TextView.
ObjectCreateManipulatorOnText(a) == [target |-> <<"TextView", _text[a]>>]

\* TextShape::CreateManipulator of the object adapter:
\* return new TextManipulator(this).
ObjectCreateManipulator(a) == [target |-> <<"TextShape", a>>]

\* What a read through a null _text may deliver when the build does not fault.
GarbageBoxes ==
  { [bottomLeft |-> Point(0, 0), topRight |-> Point(0, 0)],
    [bottomLeft |-> Point(7, 7), topRight |-> Point(3, 9)] }

FreeShapes == {a \in Shapes : variant[a] = Unborn}

NewShape == CHOOSE a \in FreeShapes : \A b \in FreeShapes : a <= b

ExistingViews == 1..viewCount

AdapterOk == adStatus = "ok"

ObjectCount == viewCount + Cardinality(Shapes \ FreeShapes) + Len(manips)

MayCreate == ObjectCount < MaxObjects

\* The client creates a TextView (TextView::TextView()); its state is
\* whatever text it was given.
NewTextView(s) ==
  /\ UNCHANGED bvars
  /\ AdapterOk
  /\ MayCreate
  /\ view' = [view EXCEPT ![viewCount + 1] = s]
  /\ viewCount' = viewCount + 1
  /\ ret' = NoRet
  /\ UNCHANGED <<variant, sub, _text, supplied, manips, lastEdit, adStatus>>

\* The client changes a TextView it created (text typed, view moved or
\* resized): TextView is the client's object, not the adapter's.
EditTextView(t, s) ==
  /\ UNCHANGED bvars
  /\ AdapterOk
  /\ t \in ExistingViews
  /\ s # view[t]
  /\ view' = [view EXCEPT ![t] = s]
  /\ lastEdit' = t
  /\ ret' = NoRet
  /\ UNCHANGED <<viewCount, variant, sub, _text, supplied, manips, adStatus>>

\* Class adapter TextShape::TextShape(): the TextView base is a subobject of
\* the adapter, constructed with it.
NewClassTextShape(s) ==
  /\ UNCHANGED bvars
  /\ AdapterOk
  /\ MayCreate
  /\ variant' = [variant EXCEPT ![NewShape] = "class"]
  /\ sub' = [sub EXCEPT ![NewShape] = s]
  /\ ret' = NoRet
  /\ UNCHANGED <<view, viewCount, _text, supplied, manips, lastEdit, adStatus>>

\* Object adapter TextShape::TextShape(TextView* t), with a TextView of the
\* client or the null pointer: the constructor checks nothing.
NewObjectTextShape(t) ==
  /\ UNCHANGED bvars
  /\ AdapterOk
  /\ MayCreate
  /\ variant' = [variant EXCEPT ![NewShape] = "object"]
  /\ _text' = [_text EXCEPT ![NewShape] = TextShapeCtor(t)]
  /\ supplied' = [supplied EXCEPT ![NewShape] = t]
  /\ ret' = NoRet
  /\ UNCHANGED <<view, viewCount, sub, manips, lastEdit, adStatus>>

Returns(o, a, v) == [op |-> o, on |-> a, value |-> v]

\* a.BoundingBox(bottomLeft, topRight) on a class adapter.
ClassCallBoundingBox(a) ==
  /\ UNCHANGED bvars
  /\ AdapterOk
  /\ variant[a] = "class"
  /\ ret' = Returns("BoundingBox", a, ClassBoundingBox(a))
  /\ UNCHANGED <<view, viewCount, variant, sub, _text, supplied, manips, lastEdit,
                 adStatus>>

\* a.IsEmpty() on a class adapter.
ClassCallIsEmpty(a) ==
  /\ UNCHANGED bvars
  /\ AdapterOk
  /\ variant[a] = "class"
  /\ ret' = Returns("IsEmpty", a, ClassIsEmpty(a))
  /\ UNCHANGED <<view, viewCount, variant, sub, _text, supplied, manips, lastEdit,
                 adStatus>>

\* a.BoundingBox(bottomLeft, topRight) on an object adapter.
ObjectCallBoundingBox(a) ==
  /\ UNCHANGED bvars
  /\ AdapterOk
  /\ variant[a] = "object"
  /\ _text[a] # NULL
  /\ ret' = Returns("BoundingBox", a, ObjectBoundingBox(a))
  /\ UNCHANGED <<view, viewCount, variant, sub, _text, supplied, manips, lastEdit,
                 adStatus>>

\* a.IsEmpty() on an object adapter.
ObjectCallIsEmpty(a) ==
  /\ UNCHANGED bvars
  /\ AdapterOk
  /\ variant[a] = "object"
  /\ _text[a] # NULL
  /\ ret' = Returns("IsEmpty", a, ObjectIsEmpty(a))
  /\ UNCHANGED <<view, viewCount, variant, sub, _text, supplied, manips, lastEdit,
                 adStatus>>

\* BoundingBox on an object adapter whose _text is null: _text->GetOrigin is
\* undefined behaviour; the build faults or delivers whatever it reads.
ObjectCallBoundingBoxNull(a) ==
  /\ UNCHANGED bvars
  /\ AdapterOk
  /\ variant[a] = "object"
  /\ _text[a] = NULL
  /\ \/ /\ adStatus' = "crashed"
        /\ ret' = NoRet
     \/ /\ \E g \in GarbageBoxes : ret' = Returns("BoundingBox", a, g)
        /\ UNCHANGED adStatus
  /\ UNCHANGED <<view, viewCount, variant, sub, _text, supplied, manips, lastEdit>>

\* IsEmpty on an object adapter whose _text is null: a virtual call through
\* a null pointer.
ObjectCallIsEmptyNull(a) ==
  /\ UNCHANGED bvars
  /\ AdapterOk
  /\ variant[a] = "object"
  /\ _text[a] = NULL
  /\ \/ /\ adStatus' = "crashed"
        /\ ret' = NoRet
     \/ /\ \E g \in BOOLEAN : ret' = Returns("IsEmpty", a, g)
        /\ UNCHANGED adStatus
  /\ UNCHANGED <<view, viewCount, variant, sub, _text, supplied, manips, lastEdit>>

\* a.CreateManipulator() on a class adapter: a new TextManipulator object,
\* returned to the caller.
ClassCallCreateManipulator(a) ==
  /\ UNCHANGED bvars
  /\ AdapterOk
  /\ variant[a] = "class"
  /\ MayCreate
  /\ manips' = Append(manips, [target |-> ClassCreateManipulator(a).target, on |-> a])
  /\ ret' = Returns("CreateManipulator", a, Len(manips) + 1)
  /\ UNCHANGED <<view, viewCount, variant, sub, _text, supplied, lastEdit, adStatus>>

\* a.CreateManipulator() on an object adapter; _text is not used.
ObjectCallCreateManipulator(a) ==
  /\ UNCHANGED bvars
  /\ AdapterOk
  /\ variant[a] = "object"
  /\ MayCreate
  /\ manips' = Append(manips, [target |-> ObjectCreateManipulator(a).target, on |-> a])
  /\ ret' = Returns("CreateManipulator", a, Len(manips) + 1)
  /\ UNCHANGED <<view, viewCount, variant, sub, _text, supplied, lastEdit, adStatus>>

\* ---------------------------------------------------------- specification
InitBackpack ==
  /\ kind = [n \in Nodes |-> Unborn]
  /\ m_Decorator = [n \in Nodes |-> NULL]
  /\ released = [n \in Nodes |-> 0]
  /\ pBackpack = NULL
  /\ stack = <<>>
  /\ out = <<>>
  /\ callLog = <<>>
  /\ status = "idle"
  /\ lastDeleted = NULL

InitAdapter ==
  /\ view = [t \in Views |-> NoView]
  /\ viewCount = 0
  /\ variant = [a \in Shapes |-> Unborn]
  /\ sub = [a \in Shapes |-> NoView]
  /\ _text = [a \in Shapes |-> NULL]
  /\ supplied = [a \in Shapes |-> NULL]
  /\ ret = NoRet
  /\ manips = <<>>
  /\ lastEdit = NULL
  /\ adStatus = "ok"

Init == InitBackpack /\ InitAdapter

\* Decorator_1.cpp is a program of its own: nothing of Adapter.cpp runs in it
\* (every action leaves the other file's variables alone).
NextBackpack ==
  \/ NewPlainBackpack
  \/ NewBackpackDecorator
  \/ NewWithLaptopSlot
  \/ NewWithUSBCharge
  \/ NewWithWaterBottle
  \/ CallAssemble
  \/ PlainAssemble
  \/ DecoratorForward
  \/ DecoratorForwardNull
  \/ DecoratorReturn
  \/ FeatureForward
  \/ FeatureEmit
  \/ DeleteBackpack

\* Adapter.cpp, likewise on its own.
NextAdapter ==
  \/ \E s \in TextViewStates : NewTextView(s)
  \/ \E t \in Views, s \in TextViewStates : EditTextView(t, s)
  \/ \E s \in TextViewStates : NewClassTextShape(s)
  \/ \E t \in ExistingViews \cup {NULL} : NewObjectTextShape(t)
  \/ \E a \in Shapes : ClassCallBoundingBox(a)
  \/ \E a \in Shapes : ClassCallIsEmpty(a)
  \/ \E a \in Shapes : ClassCallCreateManipulator(a)
  \/ \E a \in Shapes : ObjectCallBoundingBox(a)
  \/ \E a \in Shapes : ObjectCallIsEmpty(a)
  \/ \E a \in Shapes : ObjectCallCreateManipulator(a)
  \/ \E a \in Shapes : ObjectCallBoundingBoxNull(a)
  \/ \E a \in Shapes : ObjectCallIsEmptyNull(a)


SpecBackpack == Init /\ [][NextBackpack]_vars

SpecAdapter == Init /\ [][NextAdapter]_vars

\* ================================================================= claims
\* ------------------------------------------------ chains (Decorator_1.cpp)
RECURSIVE ChainFrom(_, _)
ChainFrom(n, fuel) ==
  IF n = NULL \/ fuel = 0 THEN <<>>
  ELSE <<n>> \o ChainFrom(m_Decorator[n], fuel - 1)

\* The objects reached from n through m_Decorator, n first.
Chain(n) == ChainFrom(n, MaxNodes + 1)

Reverse(q) == [i \in 1..Len(q) |-> q[Len(q) + 1 - i]]

\* The chain of n is wrappers ending in one PlainBackpack, no object twice.
RootedAtLeaf(n) ==
  LET c == Chain(n) IN
    /\ Len(c) \in 1..MaxNodes
    /\ kind[c[Len(c)]] = PlainBackpack
    /\ \A i \in 1..(Len(c) - 1) : kind[c[i]] \in WrapperKinds
    /\ \A i, j \in DOMAIN c : c[i] = c[j] => i = j

\* The dynamic types along the chain of n, outermost first.
Shape(n) == [i \in DOMAIN Chain(n) |-> kind[Chain(n)[i]]]

RunRoot == callLog[1]

\* assemble() on the handle has returned, and the handle's chain has a base.
Completed == status = "done" /\ callLog # <<>> /\ RootedAtLeaf(RunRoot)

EmitCount(n) == Cardinality({i \in DOMAIN out : out[i].by = n})

CallCount(n) == Cardinality({i \in DOMAIN callLog : callLog[i] = n})

Texts == [i \in DOMAIN out |-> out[i].text]

\* The text the documentation of each class names.
ClaimedText(k) ==
  CASE k = PlainBackpack -> "\n ShoulderStraps and mainCompartment"
    [] k = WithLaptopSlot -> " + LaptopSlot"
    [] k = WithUSBCharge -> " + USBCharge"
    [] k = WithWaterBottle -> " + WaterBottle"

IsEmitter(n) == kind[n] # BackpackDecorator

\* The objects of n's chain that write a text, innermost first.
Emitters(n) == SelectSeq(Reverse(Chain(n)), IsEmitter)

\* main's chain, outermost first.
MainShape ==
  <<WithWaterBottle, WithUSBCharge, WithLaptopSlot, BackpackDecorator, PlainBackpack>>

\* C1: one assemble() on the outermost node of a chain with a base calls
\* assemble() on every node of the chain exactly once (the base included) and
\* writes the text of the base and of every feature layer exactly once; at no
\* moment has a node been called or written twice.
C1_EveryLayerExactlyOnce ==
  /\ \A n \in Nodes : EmitCount(n) <= 1 /\ CallCount(n) <= 1
  /\ Completed =>
       \A i \in DOMAIN Chain(RunRoot) :
         LET n == Chain(RunRoot)[i] IN
           /\ CallCount(n) = 1
           /\ (kind[n] # BackpackDecorator => EmitCount(n) = 1)

\* C1 witness: a completed run over a chain of at least four nodes holding
\* all three feature layers.
C1_Witness ==
  /\ Completed
  /\ Len(Chain(RunRoot)) >= 4
  /\ FeatureKinds \subseteq {Shape(RunRoot)[i] : i \in DOMAIN Shape(RunRoot)}

\* C2: the output of a completed assemble() is the base text followed by the
\* feature texts in construction order, innermost layer first; main's chain
\* writes exactly the four texts of the comment under main.
C2_OutputInLayeringOrder ==
  Completed =>
    /\ Len(out) = Len(Emitters(RunRoot))
    /\ \A i \in DOMAIN out :
         /\ out[i].by = Emitters(RunRoot)[i]
         /\ out[i].text = ClaimedText(kind[out[i].by])
    /\ (Shape(RunRoot) = MainShape =>
          Texts = << "\n ShoulderStraps and mainCompartment", " + LaptopSlot",
                     " + USBCharge", " + WaterBottle" >>)

\* C2 witness: main's chain has been assembled.
C2_Witness == Completed /\ Shape(RunRoot) = MainShape

\* C4: once the handle has been deleted, every node of its chain has been
\* released exactly once, and no node at all more than once.
C4_DeleteReleasesWholeChain ==
  /\ \A n \in Nodes : released[n] <= 1
  /\ lastDeleted # NULL =>
       \A i \in DOMAIN Chain(lastDeleted) : released[Chain(lastDeleted)[i]] = 1

\* C5: no wrapper object exists whose next node is absent, so no assemble()
\* ever stands before a call through an absent collaborator.
C5_NoWrapperWithoutCollaborator ==
  /\ \A n \in Nodes : kind[n] \in WrapperKinds => m_Decorator[n] # NULL
  /\ status # "crashed"

IsFeature(k) == k # BackpackDecorator

\* A shape with its plain BackpackDecorator layers taken out.
Strip(sh) == SelectSeq(sh, IsFeature)

\* What a chain without plain layers writes: the texts of its nodes,
\* innermost first (sh is outermost first).
BareTexts(sh) == [i \in 1..Len(sh) |-> ClaimedText(sh[Len(sh) + 1 - i])]

\* C9: a plain BackpackDecorator writes nothing, and the output of a
\* completed assemble() is the output of the chain with its plain layers
\* taken out, so chains differing only in plain layers write the same and a
\* chain of plain layers alone writes what the base writes.
C9_PlainLayerTransparent ==
  /\ \A i \in DOMAIN out : kind[out[i].by] # BackpackDecorator
  /\ Completed => Texts = BareTexts(Strip(Shape(RunRoot)))
  /\ (Completed /\ Strip(Shape(RunRoot)) = <<PlainBackpack>>) =>
       Texts = << "\n ShoulderStraps and mainCompartment" >>

\* C9 witness: a completed run over a chain with a plain layer outermost and
\* another one below a feature layer.
C9_Witness ==
  /\ Completed
  /\ LET sh == Shape(RunRoot) IN
       /\ sh[1] = BackpackDecorator
       /\ \E i, j \in DOMAIN sh :
            1 < i /\ i < j /\ sh[i] \in FeatureKinds /\ sh[j] = BackpackDecorator

\* C10: every constructed node heads a finite acyclic chain ending in one
\* PlainBackpack, and a finished assemble() made one call per node of the
\* handle's chain (N + 1 calls for N layers).
C10_EveryChainRootedAtLeaf ==
  /\ \A n \in Nodes : kind[n] # Unborn => RootedAtLeaf(n)
  /\ (status = "done" /\ callLog # <<>>) => Len(callLog) = Len(Chain(RunRoot))

\* The part of C10 the code does keep: m_Decorator is written by the
\* constructor alone, names an older object or nothing, and a run over a
\* chain with a base makes one call per node.
ChainPointersFixed ==
  /\ \A n \in Nodes : m_Decorator[n] # NULL => (kind[n] \in WrapperKinds /\ m_Decorator[n] < n)
  /\ Completed => Len(callLog) = Len(Chain(RunRoot))

ChainPointersNeverChange ==
  [][\A n \in Nodes : kind[n] # Unborn =>
        (kind'[n] = kind[n] /\ m_Decorator'[n] = m_Decorator[n])]_vars

\* ------------------------------------------------- adapters (Adapter.cpp)
\* Adapter a has a TextView behind it: its own base subobject, or the object
\* passed to its constructor.
HasWrapped(a) ==
  \/ variant[a] = "class"
  \/ variant[a] = "object" /\ supplied[a] # NULL

WrappedState(a) == IF variant[a] = "class" THEN sub[a] ELSE view[supplied[a]]

\* C3: BoundingBox returns bottomLeft = (x, y) and
\* topRight = (x + width, y + height) of the wrapped TextView.
C3_BoundingBoxIsOriginPlusExtent ==
  (ret.op = "BoundingBox" /\ HasWrapped(ret.on)) =>
    LET w == WrappedState(ret.on) IN
      /\ ret.value.bottomLeft = <<w.x, w.y>>
      /\ ret.value.topRight = <<w.x + w.width, w.y + w.height>>

\* C6: in both variants IsEmpty returns exactly what the wrapped TextView's
\* IsEmpty answers, whatever its origin and extent.
C6_IsEmptyPassthrough ==
  (ret.op = "IsEmpty" /\ HasWrapped(ret.on)) =>
    ret.value = WrappedState(ret.on).empty

\* C6 witness: an object adapter over a non-degenerate TextView answered
\* TRUE while a class adapter exists as well.
C6_Witness ==
  /\ ret.op = "IsEmpty"
  /\ variant[ret.on] = "object" /\ supplied[ret.on] # NULL
  /\ ret.value = TRUE
  /\ view[supplied[ret.on]].width > 0
  /\ \E b \in Shapes : variant[b] = "class"

\* C7: an object adapter holds the very pointer it was constructed with, and
\* each BoundingBox() / IsEmpty() on it delivers the origin, extent and
\* emptiness that object has at the time of the call.
C7_ObjectAdapterReadsSuppliedView ==
  /\ \A a \in Shapes : variant[a] = "object" => _text[a] = supplied[a]
  /\ (ret.op \in {"BoundingBox", "IsEmpty"} /\ variant[ret.on] = "object"
        /\ supplied[ret.on] # NULL) =>
       LET w == view[supplied[ret.on]] IN
         /\ (ret.op = "IsEmpty" => ret.value = w.empty)
         /\ (ret.op = "BoundingBox" =>
               LET bl == ret.value.bottomLeft
                   tr == ret.value.topRight
               IN  /\ bl = <<w.x, w.y>>
                   /\ {tr[1] - bl[1], tr[2] - bl[2]} = {w.width, w.height})

\* C7 witness: BoundingBox on an object adapter whose TextView the client
\* changed after construction, beside a second object adapter over another
\* TextView in another state.
C7_Witness ==
  /\ ret.op = "BoundingBox"
  /\ variant[ret.on] = "object" /\ supplied[ret.on] # NULL
  /\ lastEdit = supplied[ret.on]
  /\ \E b \in Shapes :
       /\ variant[b] = "object"
       /\ supplied[b] \notin {NULL, supplied[ret.on]}
       /\ view[supplied[b]] # view[supplied[ret.on]]

C8_TargetIsAdapter ==
  \A i \in DOMAIN manips : manips[i].target = <<"TextShape", manips[i].on>>

C8_CreationStep ==
  Len(manips') > Len(manips) =>
    /\ manips' = Append(manips, manips'[Len(manips')])
    /\ ret'.op = "CreateManipulator" /\ ret'.value = Len(manips')
    /\ view' = view /\ sub' = sub /\ _text' = _text

\* C8: every manipulator's target is the adapter CreateManipulator() was
\* called on, never a TextView; each call returns a manipulator that did not
\* exist before, and leaves every TextView as it was.
C8_ManipulatorOnAdapter == [](C8_TargetIsAdapter) /\ [][C8_CreationStep]_vars

\* C8 witness: a manipulator made by an object adapter that does wrap a
\* TextView.
C8_Witness ==
  /\ ret.op = "CreateManipulator"
  /\ variant[ret.on] = "object" /\ supplied[ret.on] # NULL
  /\ manips[ret.value].on = ret.on

====
